---- MODULE Spec2Model ----
(***************************************************************************)
(* A model of src/src/data/datamodule.py: the Lightning DataModule of the  *)
(* cervical-landmark pipeline.  The state is the fields of the DataModule  *)
(* instances that exist, each public method is one action, and the         *)
(* training collate function is an operator applied by its own action.     *)
(***************************************************************************)
EXTENDS Integers, Sequences, FiniteSets, TLC

(* ----------------------------- bounds --------------------------------- *)
\* The full dataset BaseDataset() has between 0 and MaxLen items.
MaxLen == 3
\* A trainer's world_size is between 1 and MaxWorld.
MaxWorld == 3
\* BaseDataset() is constructed at most MaxLoads times per module instance.
MaxLoads == 2
\* A batch handed to the collate function has at most MaxBatch items.
MaxBatch == 2

(* ------------------------- program constants -------------------------- *)
\* manual_seed(42)
Seed == 42

\* Python's None, and objects, are records so that they compare with "=".
None == [kind |-> "None"]

Trainer(w) == [kind |-> "Trainer", world_size |-> w]

Trainers == {None} \cup {Trainer(w) : w \in 1..MaxWorld}

\* The constructor arguments, saved by save_hyperparameters().  The split is
\* a pair of fractions in tenths: <<9, 1>> is the default (0.9, 0.1).
Hparams(split, tb, eb, nw, pin, tt, et) ==
  [train_test_split |-> split, train_batch_size |-> tb, test_batch_size |-> eb,
   num_workers |-> nw, pin_memory |-> pin,
   train_transforms |-> tt, test_transforms |-> et]

Configs ==
  { Hparams(<<9, 1>>, b[1], b[2], 4, FALSE, "None", "None") : b \in {<<4, 5>>, <<6, 6>>} }
  \cup
  { Hparams(<<5, 5>>, b[1], b[2], 0, TRUE, "augment", "resize") : b \in {<<4, 5>>, <<6, 6>>} }

VARIABLES
  datasetLen,                   \* len(BaseDataset()): the data on disk
  hparams,                      \* self.hparams, per module instance
  trainer,                      \* self.trainer
  data_train, data_val, data_test,
  train_batch_size_per_device, test_batch_size_per_device,
  loads,                        \* how many times the instance built its datasets
  lastWorld,                    \* world_size last used to set the per-device sizes
  op, self, arg, ret,           \* the last call: method, instance, argument, outcome
  batch, collated               \* collate_fn's input and output

fields == <<hparams, trainer, data_train, data_val, data_test,
            train_batch_size_per_device, test_batch_size_per_device>>

vars == <<datasetLen, hparams, trainer, data_train, data_val, data_test,
          train_batch_size_per_device, test_batch_size_per_device,
          loads, lastWorld, op, self, arg, ret, batch, collated>>

Returned(v) == [kind |-> "return", value |-> v]

Raised(e) == [kind |-> "raise", value |-> e]

(* --------------------------- random_split ----------------------------- *)
\* torch.Generator().manual_seed(s): the generator's state is the seed.
manual_seed(s) == s % 65537

\* One draw advances the generator.
NextState(g) == (75 * g + 74) % 65537

\* A draw below k takes the generator's high bits.
Draw(g, k) == (NextState(g) \div 256) % k

Swap(p, a, b) == [p EXCEPT ![a] = p[b], ![b] = p[a]]

RECURSIVE Shuffle(_, _, _)
Shuffle(p, k, g) ==
  IF k <= 1 THEN p
  ELSE Shuffle(Swap(p, k, Draw(g, k) + 1), k - 1, NextState(g))

\* <<0, 1, ..., n - 1>>
RECURSIVE arange(_)
arange(n) == IF n = 0 THEN <<>> ELSE Append(arange(n - 1), n - 1)

\* torch.randperm(n, generator=g): a permutation of 0..n-1 that is a function
\* of the generator's state alone.
randperm(n, g) == Shuffle(arange(n), n, g)

\* floor(len(dataset) * frac) for each fraction, the remainder handed out
\* one by one from the first subset on.
SubsetLengths(n, fracs) ==
  LET fl == [k \in 1..Len(fracs) |-> (n * fracs[k]) \div 10]
      remainder == n - (fl[1] + fl[2])
  IN  [k \in 1..Len(fracs) |->
         fl[k] + Cardinality({r \in 0..(remainder - 1) : r % Len(fracs) = k - 1})]

SliceOverlapping(indices, offset, length) == SubSeq(indices, 1, length)

\* indices[offset - length : offset]
Slice(indices, offset, length) == SubSeq(indices, offset - length + 1, offset)

\* random_split(dataset, fracs, generator): the index lists of the subsets.
random_split(n, fracs, g) ==
  LET lengths == SubsetLengths(n, fracs)
      indices == randperm(n, g)
  IN  <<Slice(indices, lengths[1], lengths[1]),
        Slice(indices, lengths[1] + lengths[2], lengths[2])>>

Subset(indices, oid) == [kind |-> "Subset", indices |-> indices, oid |-> oid]

CervicalDataset(dataset, mode, transform) ==
  [kind |-> "CervicalDataset", dataset |-> dataset, mode |-> mode, transform |-> transform]

\* len() of a dataset wrapper is the size of the subset it wraps.
DatasetLength(d) == Len(d.dataset.indices)

\* Python truth value of an Optional[Dataset]: None is false, and so is an
\* object whose __len__ returns 0.
Truthy(d) == d # None /\ DatasetLength(d) # 0

Indices(d) == IF d = None THEN {} ELSE {d.dataset.indices[k] : k \in 1..Len(d.dataset.indices)}

(* ----------------------------- __init__ ------------------------------- *)
Constructed(M) ==
  /\ trainer = [i \in M |-> None]
  /\ data_train = [i \in M |-> None]
  /\ data_val = [i \in M |-> None]
  /\ data_test = [i \in M |-> None]
  /\ train_batch_size_per_device = [i \in M |-> hparams[i].train_batch_size]
  /\ test_batch_size_per_device = [i \in M |-> hparams[i].test_batch_size]
  /\ loads = [i \in M |-> 0]
  /\ lastWorld = [i \in M |-> None]
  /\ op = "__init__" /\ self = 1 /\ arg = None /\ ret = Returned(None)

Init(M) ==
  /\ datasetLen \in 0..MaxLen
  /\ hparams \in [M -> Configs]
  /\ Constructed(M)
  /\ batch = <<>> /\ collated = None

Modules == DOMAIN hparams

Call(name, i, a, r) == op' = name /\ self' = i /\ arg' = a /\ ret' = r

(* ------------------------------ setup --------------------------------- *)
\* The environment (the Lightning Trainer, or the caller) sets self.trainer.
AttachTrainer(i, t) ==
  /\ trainer' = [trainer EXCEPT ![i] = t]
  /\ Call("attach", i, t, Returned(None))
  /\ UNCHANGED <<datasetLen, hparams, data_train, data_val, data_test,
                 train_batch_size_per_device, test_batch_size_per_device,
                 loads, lastWorld, batch, collated>>

NotDivisibleEither(i) ==
  \/ hparams[i].train_batch_size % trainer[i].world_size # 0
  \/ hparams[i].test_batch_size % trainer[i].world_size # 0

NotDivisible(i) == hparams[i].train_batch_size % trainer[i].world_size # 0

PerDeviceUndivided(size, world) == size

PerDevice(size, world) == size \div world

TrainBatchSizeCurrent(i) == train_batch_size_per_device[i]

TrainBatchSize(i) == hparams[i].train_batch_size

NotLoadedAlways(i) == TRUE

\* not self.data_train and not self.data_val and not self.data_test
NotLoaded(i) == ~Truthy(data_train[i]) /\ ~Truthy(data_val[i]) /\ ~Truthy(data_test[i])

SplitGeneratorPerInstance(i) == manual_seed(Seed + i)

\* torch.Generator().manual_seed(42), created anew by each call
SplitGenerator(i) == manual_seed(Seed)

\* The raise comes before any assignment; otherwise the sizes are set, then
\* the datasets are built if the module holds none.  (A module is followed
\* through at most MaxLoads constructions of its datasets.)
Setup(i) ==
  IF trainer[i] # None /\ NotDivisible(i)
  THEN /\ Call("setup", i, None, Raised("RuntimeError"))
       /\ UNCHANGED <<datasetLen, hparams, trainer, data_train, data_val, data_test,
                      train_batch_size_per_device, test_batch_size_per_device,
                      loads, lastWorld, batch, collated>>
  ELSE /\ NotLoaded(i) => loads[i] < MaxLoads
       /\ IF trainer[i] # None
          THEN /\ train_batch_size_per_device' =
                    [train_batch_size_per_device EXCEPT
                       ![i] = PerDevice(TrainBatchSize(i), trainer[i].world_size)]
               /\ test_batch_size_per_device' =
                    [test_batch_size_per_device EXCEPT
                       ![i] = PerDevice(hparams[i].test_batch_size, trainer[i].world_size)]
               /\ lastWorld' = [lastWorld EXCEPT ![i] = trainer[i]]
          ELSE UNCHANGED <<train_batch_size_per_device, test_batch_size_per_device, lastWorld>>
       /\ IF NotLoaded(i)
          THEN LET split == random_split(datasetLen, hparams[i].train_test_split,
                                         SplitGenerator(i))
                   gen == loads[i] + 1
                   trainset == Subset(split[1], <<i, gen, 1>>)
                   testset == Subset(split[2], <<i, gen, 2>>)
               IN  /\ data_train' = [data_train EXCEPT ![i] =
                         CervicalDataset(trainset, "train", hparams[i].train_transforms)]
                   /\ data_val' = [data_val EXCEPT ![i] =
                         CervicalDataset(testset, "val", hparams[i].test_transforms)]
                   /\ data_test' = [data_test EXCEPT ![i] =
                         CervicalDataset(testset, "test", hparams[i].test_transforms)]
                   /\ loads' = [loads EXCEPT ![i] = gen]
          ELSE UNCHANGED <<data_train, data_val, data_test, loads>>
       /\ Call("setup", i, None, Returned(None))
       /\ UNCHANGED <<datasetLen, hparams, trainer, batch, collated>>

(* ------------------------ the no-op hooks ----------------------------- *)
Frame == UNCHANGED <<datasetLen, hparams, trainer, data_train, data_val, data_test,
                     train_batch_size_per_device, test_batch_size_per_device,
                     loads, lastWorld, batch, collated>>

num_classes_channels(i) == 24

num_classes(i) == 23

NumClasses(i) == Call("num_classes", i, None, Returned(num_classes(i))) /\ Frame

PrepareData(i) == Call("prepare_data", i, None, Returned(None)) /\ Frame

Teardown(i) == Call("teardown", i, None, Returned(None)) /\ Frame

\* A dict is the set of its <<key, value>> items; {} has none.
EmptyDict == {}

StateDicts == {EmptyDict, {<<"train_batch_size_per_device", 1>>}}

StateDict(i) == Call("state_dict", i, None, Returned(EmptyDict)) /\ Frame

LoadStateDictRestoring(i, state_dict) ==
  /\ Call("load_state_dict", i, state_dict, Returned(None))
  /\ train_batch_size_per_device' =
       [train_batch_size_per_device EXCEPT ![i] =
          IF \E kv \in state_dict : kv[1] = "train_batch_size_per_device"
          THEN (CHOOSE kv \in state_dict : kv[1] = "train_batch_size_per_device")[2]
          ELSE hparams[i].train_batch_size]
  /\ test_batch_size_per_device' =
       [test_batch_size_per_device EXCEPT ![i] = hparams[i].test_batch_size]
  /\ UNCHANGED <<datasetLen, hparams, trainer, data_train, data_val, data_test,
                 loads, lastWorld, batch, collated>>

LoadStateDict(i, state_dict) == Call("load_state_dict", i, state_dict, Returned(None)) /\ Frame

(* --------------------------- dataloaders ------------------------------ *)
\* The arguments a DataLoader is constructed with.
DataLoader(dataset, batch_size, num_workers, pin_memory, shuffle, collate) ==
  [kind |-> "DataLoader", dataset |-> dataset, batch_size |-> batch_size,
   num_workers |-> num_workers, pin_memory |-> pin_memory,
   shuffle |-> shuffle, collate_fn |-> collate]

TrainDataloader(i) ==
  /\ Call("train_dataloader", i, None,
          Returned(DataLoader(data_train[i], train_batch_size_per_device[i],
                              hparams[i].num_workers, hparams[i].pin_memory,
                              TRUE, "collate_fn")))
  /\ Frame

ValDataloader(i) ==
  /\ Call("val_dataloader", i, None,
          Returned(DataLoader(data_val[i], test_batch_size_per_device[i],
                              hparams[i].num_workers, hparams[i].pin_memory,
                              FALSE, "default")))
  /\ Frame

TestDataloader(i) ==
  /\ Call("test_dataloader", i, None,
          Returned(DataLoader(data_test[i], test_batch_size_per_device[i],
                              hparams[i].num_workers, hparams[i].pin_memory,
                              FALSE, "default")))
  /\ Frame

\* The instances that exist: one module, or the modules of two runs.
OneModule == {1}

TwoRuns == {1, 2}

Next ==
  \E i \in OneModule :
    \/ \E t \in Trainers : AttachTrainer(i, t)
    \/ Setup(i)
    \/ PrepareData(i)
    \/ Teardown(i)
    \/ NumClasses(i)
    \/ StateDict(i)
    \/ \E m \in StateDicts : LoadStateDict(i, m)
    \/ TrainDataloader(i)
    \/ ValDataloader(i)
    \/ TestDataloader(i)

\* One DataModule instance driven through any sequence of calls.
Spec == Init(OneModule) /\ [][Next]_vars

(* ------------------------ independent runs ---------------------------- *)
\* main(): instantiate the module, setup(), val_dataloader(); two runs over the
\* same data on disk, each with its own instance and its own trainer context.
NextRuns ==
  \E i \in TwoRuns :
    \/ \E t \in Trainers : AttachTrainer(i, t)
    \/ Setup(i)
    \/ ValDataloader(i)

SpecRuns == Init(TwoRuns) /\ [][NextRuns]_vars

(* ---------------------------- collate_fn ------------------------------ *)
\* A tensor is its shape and, row by row along dimension 0, what it holds.
Images == {[shape |-> <<3, 256, 128>>, rows |-> t] : t \in {"x_a", "x_b"}}

Heatmaps == {[shape |-> <<24, 64, 32>>, rows |-> t] : t \in {"y_a", "y_b"}}

\* One dataset item: ((x1, y1), (x2, y2)).
Items == (Images \X Heatmaps) \X (Images \X Heatmaps)

Batches == UNION {[1..n -> Items] : n \in 0..MaxBatch}

\* torch.empty(shape) with a leading dimension of 0
empty(shape) == [shape |-> shape, rows |-> <<>>]

\* x[None, :]
unsqueeze(x) == [shape |-> <<1>> \o x.shape, rows |-> <<x>>]

\* torch.cat((a, b, c), dim=0) of tensors that agree on the other dimensions
cat(a, b, c) ==
  [shape |-> <<a.shape[1] + b.shape[1] + c.shape[1]>> \o Tail(a.shape),
   rows |-> a.rows \o b.rows \o c.rows]

RECURSIVE collate_loop(_, _, _)
collate_loop(b, images, labels) ==
  IF b = <<>> THEN <<images, labels>>
  ELSE LET x1 == Head(b)[1][1]
           y1 == Head(b)[1][2]
           x2 == Head(b)[2][1]
           y2 == Head(b)[2][2]
       IN  collate_loop(Tail(b), cat(images, unsqueeze(x1), unsqueeze(x2)),
                                 cat(labels, unsqueeze(y1), unsqueeze(y2)))

RECURSIVE collate_members_apart(_, _, _)
collate_members_apart(b, firsts, seconds) ==
  IF b = <<>> THEN <<cat(firsts[1], seconds[1], empty(<<0, 3, 256, 128>>)),
                     cat(firsts[2], seconds[2], empty(<<0, 24, 64, 32>>))>>
  ELSE collate_members_apart(Tail(b),
         <<cat(firsts[1], unsqueeze(Head(b)[1][1]), empty(<<0, 3, 256, 128>>)),
           cat(firsts[2], unsqueeze(Head(b)[1][2]), empty(<<0, 24, 64, 32>>))>>,
         <<cat(seconds[1], unsqueeze(Head(b)[2][1]), empty(<<0, 3, 256, 128>>)),
           cat(seconds[2], unsqueeze(Head(b)[2][2]), empty(<<0, 24, 64, 32>>))>>)

collate_fn_blocked(b) ==
  collate_members_apart(b, <<empty(<<0, 3, 256, 128>>), empty(<<0, 24, 64, 32>>)>>,
                           <<empty(<<0, 3, 256, 128>>), empty(<<0, 24, 64, 32>>)>>)

collate_fn(b) == collate_loop(b, empty(<<0, 3, 256, 128>>), empty(<<0, 24, 64, 32>>))

\* The training loader hands one sampled batch to collate_fn.
InitCollate ==
  /\ datasetLen = MaxLen
  /\ hparams = [i \in OneModule |-> Hparams(<<9, 1>>, 4, 5, 4, FALSE, "None", "None")]
  /\ Constructed(OneModule)
  /\ batch \in Batches
  /\ collated = None

Collate ==
  /\ collated = None
  /\ collated' = collate_fn(batch)
  /\ UNCHANGED <<datasetLen, hparams, trainer, data_train, data_val, data_test,
                 train_batch_size_per_device, test_batch_size_per_device,
                 loads, lastWorld, op, self, arg, ret, batch>>

NextCollate == Collate

SpecCollate == InitCollate /\ [][NextCollate]_vars

(* ============================ properties ============================== *)
World(i) == trainer[i].world_size

SetupFails(i) == trainer[i] # None /\ hparams[i].train_batch_size % World(i) # 0

SomeTruthy(i) == Truthy(data_train[i]) \/ Truthy(data_val[i]) \/ Truthy(data_test[i])

\* C1: once setup has completed successfully, a second successful setup call
\* leaves data_train, data_val and data_test exactly as they were: the same
\* objects, nothing re-read, re-split or re-wrapped.
C1_SetupIdempotent ==
  [][(op' = "setup" /\ ret'.kind = "return" /\ loads[self'] >= 1)
       => /\ data_train' = data_train
          /\ data_val' = data_val
          /\ data_test' = data_test
          /\ loads' = loads]_vars

\* C2 (as stated): a setup with a trainer whose world size W divides
\* train_batch_size succeeds and sets the per-device sizes to
\* train_batch_size / W and test_batch_size // W; a setup with no trainer
\* leaves both per-device sizes equal to the configured values.
C2_Original ==
  [][op' = "setup" =>
       LET i == self' IN
         /\ (trainer[i] # None /\ hparams[i].train_batch_size % World(i) = 0)
              => /\ ret' = Returned(None)
                 /\ train_batch_size_per_device'[i] * World(i) = hparams[i].train_batch_size
                 /\ test_batch_size_per_device'[i] = hparams[i].test_batch_size \div World(i)
         /\ trainer[i] = None
              => /\ train_batch_size_per_device'[i] = hparams[i].train_batch_size
                 /\ test_batch_size_per_device'[i] = hparams[i].test_batch_size]_vars

\* C2 (amended): with a trainer whose world size W divides train_batch_size,
\* setup succeeds and sets the per-device sizes to train_batch_size / W and
\* test_batch_size // W; with no trainer, setup succeeds and leaves both
\* per-device sizes as they were, which is the configured values as long as
\* no earlier setup of the instance ran with a trainer attached.
C2_PerDeviceSizes ==
  [][op' = "setup" =>
       LET i == self' IN
         /\ (trainer[i] # None /\ hparams[i].train_batch_size % World(i) = 0)
              => /\ ret' = Returned(None)
                 /\ train_batch_size_per_device'[i] * World(i) = hparams[i].train_batch_size
                 /\ test_batch_size_per_device'[i] = hparams[i].test_batch_size \div World(i)
         /\ trainer[i] = None
              => /\ ret' = Returned(None)
                 /\ train_batch_size_per_device'[i] = train_batch_size_per_device[i]
                 /\ test_batch_size_per_device'[i] = test_batch_size_per_device[i]
                 /\ lastWorld[i] = None
                      => /\ train_batch_size_per_device'[i] = hparams[i].train_batch_size
                         /\ test_batch_size_per_device'[i] = hparams[i].test_batch_size]_vars

\* A setup with two workers has just halved the sizes, the test size rounding down.
C2_Witness ==
  /\ op = "setup" /\ ret = Returned(None)
  /\ trainer[self] = Trainer(2)
  /\ hparams[self].train_batch_size = 4 /\ train_batch_size_per_device[self] = 2
  /\ hparams[self].test_batch_size = 5 /\ test_batch_size_per_device[self] = 2

\* C3: setup raises RuntimeError exactly when a trainer is attached and
\* train_batch_size is not divisible by its world size (a test_batch_size that
\* is not divisible never fails it), it raises nothing else, and the failing
\* call changes neither the per-device sizes nor the partitions.
C3_SetupError ==
  [][op' = "setup" =>
       /\ ret' \in {Returned(None), Raised("RuntimeError")}
       /\ ret' = Raised("RuntimeError") <=> SetupFails(self')
       /\ ret' = Raised("RuntimeError") =>
            /\ train_batch_size_per_device' = train_batch_size_per_device
            /\ test_batch_size_per_device' = test_batch_size_per_device
            /\ data_train' = data_train /\ data_val' = data_val /\ data_test' = data_test
            /\ loads' = loads]_vars

\* A setup that failed on a module whose per-device sizes an earlier setup had set.
C3_Witness ==
  /\ op = "setup" /\ ret = Raised("RuntimeError")
  /\ trainer[self] = Trainer(3)
  /\ lastWorld[self] = Trainer(2)
  /\ test_batch_size_per_device[self] = 2

\* C4: for a batch of N items ((x1, y1), (x2, y2)) the collate function
\* returns an image batch and a heatmap batch of batch dimension 2N each,
\* item i giving rows 2i and 2i+1 (counted from 0) its first and its second
\* member, image row and heatmap row always from the same pair.
C4_Collate ==
  collated # None =>
    LET N == Len(batch)
        images == collated[1]
        labels == collated[2]
    IN  /\ images.shape = <<2 * N, 3, 256, 128>>
        /\ labels.shape = <<2 * N, 24, 64, 32>>
        /\ Len(images.rows) = 2 * N /\ Len(labels.rows) = 2 * N
        /\ \A i \in 0..(N - 1) :
             /\ images.rows[2 * i + 1] = batch[i + 1][1][1]
             /\ labels.rows[2 * i + 1] = batch[i + 1][1][2]
             /\ images.rows[2 * i + 2] = batch[i + 1][2][1]
             /\ labels.rows[2 * i + 2] = batch[i + 1][2][2]

\* Two items whose four members all differ have been collated.
C4_Witness ==
  /\ collated # None /\ Len(batch) = 2
  /\ batch[1][1] # batch[1][2] /\ batch[1] # batch[2]
  /\ batch[1][1][1] # batch[1][2][1] /\ batch[1][1][2] # batch[1][2][2]

\* C5 (as stated): once a first setup has loaded the datasets (here: some
\* partition is non-empty, so that the module counts them as loaded), every
\* later setup call raises nothing and changes no field of the module.
C5_Original ==
  [][(op' = "setup" /\ loads[self'] >= 1 /\ SomeTruthy(self'))
       => /\ ret' = Returned(None)
          /\ fields' = fields]_vars

\* C5 (amended): once a first setup has loaded the datasets, a later setup
\* call never changes the membership, mode or transform of a partition, and
\* leaves the partition objects untouched when any of them is non-empty (when
\* all are empty they are built again, equal in content); it raises
\* RuntimeError and changes nothing when a trainer is attached whose world
\* size does not divide train_batch_size, otherwise it returns and sets both
\* per-device sizes from the configured sizes and the world size when a
\* trainer is attached, and leaves them alone when none is.
C5_LaterSetup ==
  [][(op' = "setup" /\ loads[self'] >= 1) =>
       LET i == self' IN
         /\ Indices(data_train'[i]) = Indices(data_train[i])
         /\ Indices(data_val'[i]) = Indices(data_val[i])
         /\ Indices(data_test'[i]) = Indices(data_test[i])
         /\ data_train'[i].mode = "train" /\ data_val'[i].mode = "val"
         /\ data_test'[i].mode = "test"
         /\ data_train'[i].transform = data_train[i].transform
         /\ data_val'[i].transform = data_val[i].transform
         /\ data_test'[i].transform = data_test[i].transform
         /\ SomeTruthy(i) =>
              /\ data_train' = data_train /\ data_val' = data_val /\ data_test' = data_test
              /\ loads' = loads
         /\ hparams' = hparams /\ trainer' = trainer
         /\ ret' = (IF SetupFails(i) THEN Raised("RuntimeError") ELSE Returned(None))
         /\ SetupFails(i) => fields' = fields
         /\ (trainer[i] # None /\ ~SetupFails(i)) =>
              /\ train_batch_size_per_device'[i] = hparams[i].train_batch_size \div World(i)
              /\ test_batch_size_per_device'[i] = hparams[i].test_batch_size \div World(i)
         /\ trainer[i] = None =>
              /\ train_batch_size_per_device'[i] = train_batch_size_per_device[i]
              /\ test_batch_size_per_device'[i] = test_batch_size_per_device[i]]_vars

\* A setup without a trainer has returned on a module that an earlier setup,
\* run with a trainer, had loaded with non-empty partitions.
C5_Witness ==
  /\ op = "setup" /\ ret = Returned(None)
  /\ trainer[self] = None /\ lastWorld[self] # None
  /\ loads[self] = 1
  /\ Truthy(data_train[self]) /\ Truthy(data_val[self])

C7_DisjointPartitions ==
  \A i \in Modules :
    loads[i] >= 1 =>
      /\ Indices(data_train[i]) \cap Indices(data_val[i]) = {}
      /\ Indices(data_train[i]) \cap Indices(data_test[i]) = {}
      /\ data_val[i].dataset = data_test[i].dataset
      /\ data_train[i].dataset.oid[2] = data_val[i].dataset.oid[2]

\* A setup has split a dataset into a non-empty training part and a
\* non-empty evaluation part.
C7_Witness ==
  /\ op = "setup" /\ loads[self] >= 1
  /\ Indices(data_train[self]) # {} /\ Indices(data_test[self]) # {}

\* C8: state_dict returns an empty mapping and changes no field, and
\* load_state_dict with any mapping changes no field, before and after setup.
C8_StateDictRoundTrip ==
  [][/\ op' = "state_dict" => (ret' = Returned(EmptyDict) /\ fields' = fields /\ loads' = loads)
     /\ op' = "load_state_dict" => (ret' = Returned(None) /\ fields' = fields /\ loads' = loads)]_vars

\* The mapping state_dict returns has been loaded into a module that is set
\* up and whose per-device sizes differ from the configured ones.
C8_Witness ==
  /\ op = "load_state_dict" /\ arg = EmptyDict
  /\ loads[self] >= 1
  /\ train_batch_size_per_device[self] # hparams[self].train_batch_size

\* C9: num_classes is 23 in every state, for every configuration and after
\* any sequence of calls.
C9_NumClasses ==
  /\ \A i \in Modules : num_classes(i) = 23
  /\ op = "num_classes" => ret = Returned(23)

\* num_classes has been read on a module that is set up under a trainer.
C9_Witness ==
  /\ op = "num_classes" /\ loads[self] >= 1 /\ trainer[self] # None
  /\ hparams[self].train_batch_size = 6

\* The size a loader is to use: the configured size, divided (rounding down)
\* by the world size of the last successful setup that read one.
Expected(i, configured) ==
  IF lastWorld[i] = None THEN configured ELSE configured \div lastWorld[i].world_size

====
